---- MODULE Spec2Model ----
(***************************************************************************)
(* Matching and synchronization pipeline of haw-modul-anerkennung:         *)
(*   - the catalog (NeonDB units table) edited through the admin CRUD,     *)
(*   - the ChromaDB collection "units" (the semantic index),               *)
(*   - sync_from_database (reconcile), one action per store call,          *)
(*   - MatchingAssistant.compare_multiple (compareMany) with its worker    *)
(*     pool, one action per task step,                                     *)
(*   - ensure_synced (the checksum gate) over the catalog's updated_at,    *)
(*   - find_matching_units (search) and compare_modules (compareOne),      *)
(*   - the scoring criteria of the two comparison prompts,                 *)
(*   - the admin sessions of auth.py and the routes guarded by them.       *)
(* Unit ids and titles are small integers; a document and a metadata       *)
(* record are built from the unit's title as the code builds them.         *)
(***************************************************************************)
EXTENDS Integers, Sequences, FiniteSets, TLC

\* ---------------------------------------------------------------- bounds
MaxUnits == 3
MaxTitle == 2
MaxReq == 3
\* catalog writes the checksum gate is followed through
MaxTime == 4
\* largest limit of a search
MaxLimit == 4
\* session tokens that can be issued
MaxTokens == 3

UnitIds == 1..MaxUnits
Titles == 1..MaxTitle
\* callers of sync_from_database; the sequential specification uses one
Procs == {"p1", "p2"}
Callers == {"p1"}

VARIABLES
    units,        \* catalog: unit_id -> unit row, for the rows that exist
    collection,   \* ChromaDB collection: id -> [document, metadata]
    sync,         \* per caller: position and locals of sync_from_database
    hist,         \* history: what the last finished sync call was
    cmp,          \* position and locals of compare_multiple
    updated_at,   \* catalog: unit_id -> units.updated_at, where it is tracked
    now,          \* the database clock (datetime.utcnow)
    last_checksum,\* chromadb._last_checksum
    gate,         \* per caller: position and locals of ensure_synced
    ghist,        \* history: what the last finished ensure_synced call was
    srch,         \* position and locals of find_matching_units
    one,          \* position and locals of compare_modules
    crit,         \* a coverage judged by the criteria of both prompts
    sessions,     \* auth._sessions: token -> hours since it was last used
    auth          \* the last auth call or admin request, and its history

coreVars == <<units, collection, sync, hist, cmp>>
gateVars == <<updated_at, now, last_checksum, gate, ghist>>
restVars == <<srch, one, crit, sessions, auth>>
extVars == <<gateVars, restVars>>
vars == <<units, collection, sync, hist, cmp, extVars>>

EmptyMap == [u \in {} |-> 0]

\* the one title a unit has where titles play no part
SeedTitle(u) == ((u - 1) % MaxTitle) + 1

\* ------------------------------------------------- document and metadata
\* content_parts joined: "Unit: <title>" (chromadb.py 149-163)
BuildDocument(unit) == <<"Unit", unit.title>>

\* variant: the metadata's unit_id is taken from another field of the unit
BuildMetadataTitleAsId(unit_id, unit) ==
    [unit_id |-> unit.title, unit_title |-> unit.title]

\* metadata record (chromadb.py 167-180)
BuildMetadata(unit_id, unit) == [unit_id |-> unit_id, unit_title |-> unit.title]

BuildEntry(unit_id, unit) ==
    [document |-> BuildDocument(unit), metadata |-> BuildMetadata(unit_id, unit)]

\* every catalog the admin CRUD can produce
Catalogs == UNION {[S -> [title : Titles]] : S \in SUBSET UnitIds}

\* ------------------------------------------------------------ the store
\* collection.delete(ids=...): removes the ids that exist, ignores the rest
StoreDelete(coll, ids) == [u \in (DOMAIN coll) \ ids |-> coll[u]]

\* collection.add(documents, metadatas, ids): inserts the entries whose id
\* is not yet in the collection; an id already present keeps its entry
StoreAdd(coll, entries) ==
    [u \in (DOMAIN coll) \cup (DOMAIN entries) |->
        IF u \in DOMAIN coll THEN coll[u] ELSE entries[u]]

\* collection.count()
StoreCount(coll) == Cardinality(DOMAIN coll)

\* ------------------------------------------------------ sync call record
IdleSync ==
    [pc |-> "idle", force_refresh |-> FALSE, units |-> EmptyMap,
     existing |-> EmptyMap, to_add |-> {}, to_delete |-> {},
     units_to_process |-> {}, total |-> 0, ops |-> <<>>,
     again |-> FALSE, prev_total |-> 0]

\* the "error" key of the response dict is absent
NoError == [task |-> 0]

NoResponse == [results |-> <<>>, timing |-> {}, error |-> NoError]

IdleCmp ==
    [pc |-> "idle", unit_ids |-> <<>>, units_data |-> <<>>, task |-> <<>>,
     llm_calls |-> [u \in UnitIds |-> 0], response |-> NoResponse]

\* get_units_checksum of an empty units table: max() over no rows is NULL
NoChecksum == 0

\* ensure_synced is not running; was_last, syncs, again and dirty are
\* history of the call: _last_checksum as the call found it, the
\* sync_from_database calls it made, whether it repeats a call that synced
\* with no catalog write since, whether the catalog was written during it
IdleGate == [pc |-> "idle", current_checksum |-> NoChecksum,
             was_last |-> NoChecksum, result |-> FALSE, syncs |-> 0,
             again |-> FALSE, dirty |-> FALSE]

\* find_matching_units, compare_modules, the criteria: not running
IdleSearch == [pc |-> "idle", limit |-> 0, n |-> 0, results |-> <<>>,
               matches |-> <<>>]

NoOneResponse == [error |-> "", error_unit_id |-> 0, recommendation |-> "",
                  internal_unit_id |-> 0]

IdleOne == [pc |-> "idle", internal_unit_id |-> 0, found |-> FALSE,
            llm_calls |-> 0, llm_failed |-> FALSE, response |-> NoOneResponse]

IdleCrit == [pc |-> "idle", percent |-> 0, core |-> FALSE, extern |-> 0,
             intern |-> 0,
             single |-> [empfehlung |-> "", credits_ok |-> FALSE],
             batch |-> [empfehlung |-> "", credits_ok |-> FALSE]]

\* the empty string or None where a token is expected
NoToken == 0

\* history of the tokens: issued (returned by create_session or login),
\* live (issued and not deleted or logged out since), overdue (left unused
\* for longer than the timeout), logged_out
NoTokens == [issued |-> {}, live |-> {}, overdue |-> {}, logged_out |-> {}]

\* the last call or request: what it was given, what it answered (removed
\* is the number cleanup_expired_sessions returns), and _sessions as it
\* found them
NoCall == [op |-> "none", token |-> NoToken, ok |-> FALSE, status |-> 0,
           present |-> FALSE, db_access |-> FALSE, removed |-> 0,
           before |-> EmptyMap]

\* no ensure_synced call has been made: _last_checksum = None
\* (chromadb.py 61)
GateInit ==
    /\ updated_at = EmptyMap
    /\ now = 0
    /\ last_checksum = NoChecksum
    /\ gate = [p \in Procs |-> IdleGate]
    /\ ghist = [fresh |-> FALSE]

ExtInit ==
    /\ GateInit
    /\ srch = IdleSearch
    /\ one = IdleOne
    /\ crit = IdleCrit
    /\ sessions = EmptyMap
    /\ auth = [call |-> NoCall, h |-> NoTokens]

Init ==
    /\ units = EmptyMap
    /\ collection = EmptyMap
    /\ sync = [p \in Procs |-> IdleSync]
    /\ hist = [fresh |-> FALSE, total |-> 0]
    /\ cmp = IdleCmp
    /\ ExtInit

\* ---------------------------------------------------- catalog (admin CRUD)
\* A catalog write commutes with every step a running sync call takes after
\* its fetch (the call never reads the catalog again), so the writes are
\* taken between calls.
NoSyncRunning == \A p \in Procs : sync[p].pc = "idle"

CatalogWritten == hist' = [hist EXCEPT !.fresh = FALSE]

\* database.create_unit: unit_id is unique
CreateUnit(u, t) ==
    /\ NoSyncRunning
    /\ u \notin DOMAIN units
    /\ units' = [x \in (DOMAIN units) \cup {u} |->
                    IF x = u THEN [title |-> t] ELSE units[x]]
    /\ CatalogWritten
    /\ UNCHANGED <<collection, sync, cmp>>
    /\ UNCHANGED extVars

\* database.update_unit
UpdateUnit(u, t) ==
    /\ NoSyncRunning
    /\ u \in DOMAIN units
    /\ units[u].title # t
    /\ units' = [units EXCEPT ![u] = [title |-> t]]
    /\ CatalogWritten
    /\ UNCHANGED <<collection, sync, cmp>>
    /\ UNCHANGED extVars

\* database.delete_unit
DeleteUnit(u) ==
    /\ NoSyncRunning
    /\ u \in DOMAIN units
    /\ units' = [x \in (DOMAIN units) \ {u} |-> units[x]]
    /\ CatalogWritten
    /\ UNCHANGED <<collection, sync, cmp>>
    /\ UNCHANGED extVars

\* ------------------------------------------------------ sync_from_database
\* variant: the empty-snapshot guard is missing
SnapshotEmptyIgnored(data) == FALSE

\* line 101: "if not units"
SnapshotEmpty(data) == DOMAIN data = {}

\* variant: every snapshot id is added again
ToAddAll(new_ids, existing_ids) == new_ids

\* line 112: to_add = new_ids - existing_ids
ToAdd(new_ids, existing_ids) == new_ids \ existing_ids

\* variant: stale ids are never deleted
ToDeleteNone(new_ids, existing_ids) == {}

\* variant: every id of the index is deleted, stale or not
ToDeleteAll(new_ids, existing_ids) == existing_ids

\* line 113: to_delete = existing_ids - new_ids
ToDelete(new_ids, existing_ids) == existing_ids \ new_ids

\* line 115: nothing to add, nothing to delete, not forced
UpToDate(to_add, to_delete, force) == to_add = {} /\ to_delete = {} /\ ~force

\* variant: every unit is rebuilt, forced or not
UnitsToProcessAll(force, data, to_add) == DOMAIN data

\* variant: a forced refresh builds the new ids only
UnitsToProcessNewOnly(force, data, to_add) == to_add

\* lines 125-131: the units whose entries are (re)built
UnitsToProcess(force, data, to_add) == IF force THEN DOMAIN data ELSE to_add

Finished(p) == sync[p].pc \in {"done", "raised"}

\* the call ends (returned or raised): remember it for the next call
Remember(force, ok, total) == [fresh |-> (~force) /\ ok, total |-> total]

\* lines 96-103: fetch the snapshot; an empty snapshot returns 0 at once
SyncFetch(p, force) ==
    /\ sync[p].pc = "idle"
    /\ LET call == [IdleSync EXCEPT !.force_refresh = force, !.units = units,
                                     !.again = hist.fresh,
                                     !.prev_total = hist.total]
       IN IF SnapshotEmpty(units)
          THEN /\ sync' = [sync EXCEPT ![p] = [call EXCEPT !.pc = "done", !.total = 0]]
               /\ hist' = Remember(force, TRUE, 0)
          ELSE /\ sync' = [sync EXCEPT ![p] = [call EXCEPT !.pc = "get"]]
               /\ hist' = [hist EXCEPT !.fresh = FALSE]
    /\ UNCHANGED <<units, collection, cmp>>
    /\ UNCHANGED <<updated_at, now, last_checksum, ghist, restVars>>

\* lines 105-117: read the collection, diff the id sets, fast path
SyncGet(p) ==
    /\ sync[p].pc = "get"
    /\ LET existing_ids == DOMAIN collection
           new_ids == DOMAIN sync[p].units
           to_add == ToAdd(new_ids, existing_ids)
           to_delete == ToDelete(new_ids, existing_ids)
           call == [sync[p] EXCEPT !.existing = collection, !.to_add = to_add,
                                   !.to_delete = to_delete]
       IN IF UpToDate(to_add, to_delete, sync[p].force_refresh)
          THEN /\ sync' = [sync EXCEPT ![p] =
                              [call EXCEPT !.pc = "done",
                                           !.total = Cardinality(existing_ids)]]
               /\ hist' = Remember(FALSE, TRUE, Cardinality(existing_ids))
          ELSE /\ sync' = [sync EXCEPT ![p] = [call EXCEPT !.pc = "delete"]]
               /\ UNCHANGED hist
    /\ UNCHANGED <<units, collection, cmp>>
    /\ UNCHANGED extVars

\* lines 119-122: delete the ids that left the catalog
SyncDelete(p) ==
    /\ sync[p].pc = "delete"
    /\ IF sync[p].to_delete # {}
       THEN /\ collection' = StoreDelete(collection, sync[p].to_delete)
            /\ sync' = [sync EXCEPT ![p].pc = "clear",
                           ![p].ops = Append(@, <<"delete", sync[p].to_delete>>)]
       ELSE /\ UNCHANGED collection
            /\ sync' = [sync EXCEPT ![p].pc = "clear"]
    /\ UNCHANGED <<units, hist, cmp>>
    /\ UNCHANGED extVars

\* lines 124-133: a forced refresh deletes every id read at line 108 and
\* processes every unit; otherwise only the new ids are processed
SyncClear(p) ==
    /\ sync[p].pc = "clear"
    /\ LET existing_ids == DOMAIN sync[p].existing
           utp == UnitsToProcess(sync[p].force_refresh, sync[p].units,
                                 sync[p].to_add)
           nextpc == IF utp = {} THEN "count" ELSE "add"
       IN IF sync[p].force_refresh /\ existing_ids # {}
          THEN /\ collection' = StoreDelete(collection, existing_ids)
               /\ sync' = [sync EXCEPT ![p].pc = nextpc,
                              ![p].units_to_process = utp,
                              ![p].ops = Append(@, <<"delete", existing_ids>>)]
          ELSE /\ UNCHANGED collection
               /\ sync' = [sync EXCEPT ![p].pc = nextpc,
                              ![p].units_to_process = utp]
    /\ UNCHANGED <<units, hist, cmp>>
    /\ UNCHANGED extVars

\* lines 140-190: build document and metadata of every unit to process and
\* add them; the embedding provider may fail, and then the call raises
SyncAdd(p, ok) ==
    /\ sync[p].pc = "add"
    /\ IF ok
       THEN LET entries == [u \in sync[p].units_to_process |->
                               BuildEntry(u, sync[p].units[u])]
            IN /\ collection' = StoreAdd(collection, entries)
               /\ sync' = [sync EXCEPT ![p].pc = "count",
                              ![p].ops = Append(@, <<"add", DOMAIN entries>>)]
               /\ UNCHANGED hist
       ELSE /\ UNCHANGED collection
            /\ sync' = [sync EXCEPT ![p].pc = "raised"]
            /\ hist' = Remember(sync[p].force_refresh, FALSE, 0)
    /\ UNCHANGED <<units, cmp>>
    /\ UNCHANGED extVars

\* lines 135-138 and 192-194: return collection.count()
SyncCount(p) ==
    /\ sync[p].pc = "count"
    /\ sync' = [sync EXCEPT ![p].pc = "done", ![p].total = StoreCount(collection)]
    /\ hist' = Remember(sync[p].force_refresh, TRUE, StoreCount(collection))
    /\ UNCHANGED <<units, collection, cmp>>
    /\ UNCHANGED extVars

\* the caller has the result (or the exception); the locals are gone
SyncReturn(p) ==
    /\ Finished(p)
    /\ sync' = [sync EXCEPT ![p] = IdleSync]
    /\ UNCHANGED <<units, collection, hist, cmp>>
    /\ UNCHANGED extVars

\* ---------------------------------------- MatchingAssistant.compare_multiple
\* requests: lists of unit ids, repeated ids included
Requests == UNION {[1..n -> UnitIds] : n \in 0..MaxReq}

\* lines 326-331: the units_data item of a unit found in the collection
UnitData(coll, unit_id) ==
    [unit_id |-> unit_id, doc |-> coll[unit_id].document,
     meta |-> coll[unit_id].metadata]

\* variant: an id that is not found becomes a candidate all the same
ResolveNoSkip(coll, unit_ids) ==
    [i \in 1..Len(unit_ids) |->
        IF unit_ids[i] \in DOMAIN coll
        THEN UnitData(coll, unit_ids[i])
        ELSE [unit_id |-> unit_ids[i], doc |-> <<>>,
              meta |-> [unit_id |-> unit_ids[i], unit_title |-> 0]]]

\* variant: the loop stops at the first id that is not found
RECURSIVE ResolveUntilMissing(_, _)
ResolveUntilMissing(coll, unit_ids) ==
    IF unit_ids = <<>> \/ Head(unit_ids) \notin DOMAIN coll THEN <<>>
    ELSE <<UnitData(coll, Head(unit_ids))>> \o ResolveUntilMissing(coll, Tail(unit_ids))

\* lines 320-331: one collection.get per requested id, in request order;
\* an id that is not found is skipped
RECURSIVE Resolve(_, _)
Resolve(coll, unit_ids) ==
    IF unit_ids = <<>> THEN <<>>
    ELSE IF Head(unit_ids) \in DOMAIN coll
         THEN <<UnitData(coll, Head(unit_ids))>> \o Resolve(coll, Tail(unit_ids))
         ELSE Resolve(coll, Tail(unit_ids))

\* variant: the unit_id the provider put into its answer is kept
EnrichKeepProvider(parsed, unit_data) ==
    [unit_id |-> parsed.unit_id,
     lernziele_match |-> parsed.lernziele_match,
     unit_title |-> unit_data.meta.unit_title,
     unit_content |-> unit_data.doc]

\* lines 400-408: the parsed response enriched with the candidate's data;
\* unit_id is overwritten by the id the collection was asked for
Enrich(parsed, unit_data) ==
    [unit_id |-> unit_data.unit_id,
     lernziele_match |-> parsed.lernziele_match,
     unit_title |-> unit_data.meta.unit_title,
     unit_content |-> unit_data.doc]

\* lines 428-433: the keys of the timing record
TimingKeys == {"db_ms", "llm_ms", "avg_llm_per_unit_ms", "total_ms"}

\* lines 426-434: the response when every future gave its result
Success(results) == [results |-> results, timing |-> TimingKeys, error |-> NoError]

\* variant: no except clause, the exception leaves compare_multiple
HandleReraise(e) == [pc |-> "raised", response |-> NoResponse]

\* lines 436-438: the except clause around the parallel phase
Handle(e) == [pc |-> "done", response |-> [results |-> <<>>, timing |-> {}, error |-> e]]

\* line 334: "if not units_data"
NothingResolved(units_data) == units_data = <<>>

Pending == [state |-> "pending"]

\* the orders in which as_completed can hand over n finished futures
Orders(n) == {o \in [1..n -> 1..n] : \A i, j \in 1..n : i # j => o[i] # o[j]}

\* lines 316-335: fetch the candidates; nothing resolved returns at once
CompareFetch(unit_ids) ==
    /\ cmp.pc = "idle"
    /\ LET units_data == Resolve(collection, unit_ids)
           call == [IdleCmp EXCEPT !.unit_ids = unit_ids, !.units_data = units_data]
       IN IF NothingResolved(units_data)
          THEN cmp' = [call EXCEPT !.pc = "done",
                                   !.response = [results |-> <<>>, timing |-> {},
                                                 error |-> NoError]]
          ELSE cmp' = [call EXCEPT !.pc = "running",
                                   !.task = [i \in 1..Len(units_data) |-> Pending]]
    /\ UNCHANGED <<units, collection, sync, hist>>
    /\ UNCHANGED extVars

\* lines 338-394: a worker takes the task and issues its generative call
TaskStart(i) ==
    /\ cmp.pc = "running"
    /\ i \in DOMAIN cmp.task
    /\ cmp.task[i].state = "pending"
    /\ cmp' = [cmp EXCEPT !.task[i] = [state |-> "running"],
                          !.llm_calls[cmp.units_data[i].unit_id] = @ + 1]
    /\ UNCHANGED <<units, collection, sync, hist>>
    /\ UNCHANGED extVars

\* lines 396-410: the response is parsed and enriched; the provider's
\* unit_id and score are whatever it returned
TaskFinish(i, llm_unit_id) ==
    /\ cmp.pc = "running"
    /\ i \in DOMAIN cmp.task
    /\ cmp.task[i].state = "running"
    /\ cmp' = [cmp EXCEPT !.task[i] =
                  [state |-> "ok",
                   result |-> Enrich([unit_id |-> llm_unit_id, lernziele_match |-> 0],
                                     cmp.units_data[i])]]
    /\ UNCHANGED <<units, collection, sync, hist>>
    /\ UNCHANGED extVars

\* lines 390-397: generate_content or json.loads raises inside the task
TaskFail(i) ==
    /\ cmp.pc = "running"
    /\ i \in DOMAIN cmp.task
    /\ cmp.task[i].state = "running"
    /\ cmp' = [cmp EXCEPT !.task[i] = [state |-> "failed"]]
    /\ UNCHANGED <<units, collection, sync, hist>>
    /\ UNCHANGED extVars

\* variant: the block is left as soon as one task's exception is seen
JoinedUntilFailure(task) ==
    \/ \E i \in DOMAIN task : task[i].state = "failed"
    \/ \A i \in DOMAIN task : task[i].state = "ok"

\* lines 412-421: leaving the with block is executor.shutdown(wait=True),
\* on the normal way out and when f.result() raised
Joined(task) == \A i \in DOMAIN task : task[i].state \in {"ok", "failed"}

\* lines 412-438: the with block is left when every task has finished;
\* f.result() re-raises a failed task's exception, which the except
\* clause turns into the error response
CompareReturn ==
    /\ cmp.pc = "running"
    /\ Joined(cmp.task)
    /\ LET failed == {i \in DOMAIN cmp.task : cmp.task[i].state = "failed"}
       IN IF failed # {}
          THEN \E i \in failed :
                  LET h == Handle([task |-> i])
                  IN cmp' = [cmp EXCEPT !.pc = h.pc, !.response = h.response]
          ELSE \E o \in Orders(Len(cmp.task)) :
                  cmp' = [cmp EXCEPT !.pc = "done",
                             !.response = Success([j \in 1..Len(cmp.task) |->
                                                      cmp.task[o[j]].result])]
    /\ UNCHANGED <<units, collection, sync, hist>>
    /\ UNCHANGED extVars

\* the caller has the response (or the exception); the locals are gone
CompareLeave ==
    /\ cmp.pc \in {"done", "raised"}
    /\ cmp' = IdleCmp
    /\ UNCHANGED <<units, collection, sync, hist>>
    /\ UNCHANGED extVars

\* ------------------------------------------------------- checksum gate
Max(S) == CHOOSE m \in S : \A x \in S : x <= m

\* database.py 24-38: select max(units.updated_at)
GetUnitsChecksum(upd) ==
    IF DOMAIN upd = {} THEN NoChecksum ELSE Max({upd[u] : u \in DOMAIN upd})

\* variant: only a changed checksum triggers
ShouldSyncOnChangeOnly(last, current) == current # last

\* chromadb.py 212: _last_checksum is None or current_checksum != _last_checksum
ShouldSync(last, current) == last = NoChecksum \/ current # last

\* variant: the checksum is stored whether the sync returned or raised
NewLastChecksumAlways(ok, last, current) == current

\* chromadb.py 214-215: the assignment is reached only when
\* sync_from_database returned
NewLastChecksum(ok, last, current) == IF ok THEN current ELSE last

\* a catalog write: the running ensure_synced calls have read their
\* checksum before it, and the next call is no longer an unchanged repeat
GateSeesWrite ==
    /\ gate' = [p \in Procs |-> IF gate[p].pc = "idle" THEN gate[p]
                                ELSE [gate[p] EXCEPT !.dirty = TRUE]]
    /\ ghist' = [fresh |-> FALSE]

\* database.py 137-155 with models.py 79: the new row's updated_at is the
\* commit time
AdminCreateUnit(u) ==
    /\ NoSyncRunning
    /\ now < MaxTime
    /\ u \notin DOMAIN units
    /\ units' = [x \in DOMAIN units \cup {u} |->
                    IF x = u THEN [title |-> SeedTitle(u)] ELSE units[x]]
    /\ now' = now + 1
    /\ updated_at' = [x \in DOMAIN units \cup {u} |->
                         IF x = u THEN now + 1 ELSE updated_at[x]]
    /\ CatalogWritten
    /\ GateSeesWrite
    /\ UNCHANGED <<collection, sync, cmp, last_checksum>>
    /\ UNCHANGED restVars

\* database.py 158-181 with models.py 79: a changed column that the index
\* does not hold (semester, sws, ...); onupdate sets updated_at
AdminUpdateUnit(u) ==
    /\ NoSyncRunning
    /\ now < MaxTime
    /\ u \in DOMAIN units
    /\ now' = now + 1
    /\ updated_at' = [updated_at EXCEPT ![u] = now + 1]
    /\ CatalogWritten
    /\ GateSeesWrite
    /\ UNCHANGED <<units, collection, sync, cmp, last_checksum>>
    /\ UNCHANGED restVars

\* database.py 184-192: the row is gone and its updated_at with it
AdminDeleteUnit(u) ==
    /\ NoSyncRunning
    /\ now < MaxTime
    /\ u \in DOMAIN units
    /\ units' = [x \in DOMAIN units \ {u} |-> units[x]]
    /\ now' = now + 1
    /\ updated_at' = [x \in DOMAIN units \ {u} |-> updated_at[x]]
    /\ CatalogWritten
    /\ GateSeesWrite
    /\ UNCHANGED <<collection, sync, cmp, last_checksum>>
    /\ UNCHANGED restVars

\* chromadb.py 209-212 and 218: read the checksum and decide
EnsureCheck(p) ==
    /\ gate[p].pc = "idle"
    /\ sync[p].pc = "idle"
    /\ LET current_checksum == GetUnitsChecksum(updated_at)
           call == [IdleGate EXCEPT !.current_checksum = current_checksum,
                                    !.was_last = last_checksum,
                                    !.again = ghist.fresh]
       IN IF ShouldSync(last_checksum, current_checksum)
          THEN gate' = [gate EXCEPT ![p] = [call EXCEPT !.pc = "syncing"]]
          ELSE gate' = [gate EXCEPT ![p] = [call EXCEPT !.pc = "done",
                                                        !.result = FALSE]]
    /\ ghist' = [fresh |-> FALSE]
    /\ UNCHANGED <<units, collection, sync, hist, cmp>>
    /\ UNCHANGED <<updated_at, now, last_checksum>>
    /\ UNCHANGED restVars

\* chromadb.py 214: sync_from_database() with its default force_refresh
GateSyncFetch(p) ==
    /\ gate[p].pc = "syncing"
    /\ SyncFetch(p, FALSE)
    /\ gate' = [gate EXCEPT ![p].syncs = @ + 1]

\* chromadb.py 215-216: the sync returned, the checksum read at the start
\* is stored and True returned; a raising sync leaves ensure_synced there
EnsureFinish(p) ==
    /\ gate[p].pc = "syncing"
    /\ Finished(p)
    /\ LET ok == sync[p].pc = "done"
       IN /\ last_checksum' = NewLastChecksum(ok, last_checksum,
                                              gate[p].current_checksum)
          /\ gate' = [gate EXCEPT ![p].pc = IF ok THEN "done" ELSE "raised",
                                  ![p].result = ok]
          /\ ghist' = [fresh |-> ok /\ ~gate[p].dirty]
    /\ sync' = [sync EXCEPT ![p] = IdleSync]
    /\ UNCHANGED <<units, collection, hist, cmp, updated_at, now>>
    /\ UNCHANGED restVars

\* the caller has the result (or the exception); the locals are gone
EnsureLeave(p) ==
    /\ gate[p].pc \in {"done", "raised"}
    /\ gate' = [gate EXCEPT ![p] = IdleGate]
    /\ UNCHANGED <<units, collection, sync, hist, cmp>>
    /\ UNCHANGED <<updated_at, now, last_checksum, ghist, restVars>>

\* sync_from_database called by a caller that is not inside ensure_synced
DirectSyncFetch(p, force) ==
    /\ gate[p].pc = "idle"
    /\ SyncFetch(p, force)
    /\ UNCHANGED gate

DirectSyncReturn(p) ==
    /\ gate[p].pc = "idle"
    /\ SyncReturn(p)

\* ---------------------------------------------------------------- search
\* distances and similarities are counted in steps of 0.0005: One is 1.0,
\* two steps are the last of the three decimals round() keeps
One == 2000

\* cosine distances a query can have to an entry: around 0, 1 and 2
Distances == {0, 1, 3, One, 2 * One - 1, 2 * One}

Limits == 1..MaxLimit

\* the distances of one query text to the entries of the collection
QueryDistances == [DOMAIN collection -> Distances]

Min(a, b) == IF a <= b THEN a ELSE b

\* round(x, 3): the nearest thousandth, a tie going to the even one
Round3(x) ==
    IF x % 2 = 0 THEN x
    ELSE IF ((x - 1) \div 2) % 2 = 0 THEN x - 1 ELSE x + 1

\* variant: the distance itself is reported
SimilarityIsDistance(dist) == Round3(dist)

\* assistant.py 109 and 121: similarity = 1 - dist, rounded
Similarity(dist) == Round3(One - dist)

\* variant: the enumerate index itself
RankFromZero(i) == i

\* assistant.py 102 and 112: enumerate counts from 0, rank is i + 1
Rank(i) == i + 1

\* collection.query(n_results): the n_results nearest entries, nearest
\* first; entries at the same distance come in either order
StoreQuery(coll, dist, n_results) ==
    LET k == Min(n_results, StoreCount(coll))
    IN {q \in [1..k -> DOMAIN coll] :
           /\ \A i, j \in 1..k : i < j => q[i] # q[j] /\ dist[q[i]] <= dist[q[j]]
           /\ \A u \in DOMAIN coll :
                  (\A i \in 1..k : q[i] # u) =>
                      \A i \in 1..k : dist[q[i]] <= dist[u]}

\* assistant.py 101-123: one match per result, in the result's order
Matches(results) ==
    [r \in 1..Len(results) |->
        [rank |-> Rank(r - 1),
         unit_id |-> results[r].metadata.unit_id,
         similarity |-> Similarity(results[r].distance)]]

\* assistant.py 94-131: the query, then the matches built from its results
Search(dist, limit) ==
    /\ srch.pc = "idle"
    /\ one.pc = "idle"
    /\ \E q \in StoreQuery(collection, dist, limit) :
          LET results == [r \in 1..Len(q) |->
                             [id |-> q[r], distance |-> dist[q[r]],
                              metadata |-> collection[q[r]].metadata]]
          IN srch' = [pc |-> "done", limit |-> limit,
                      n |-> StoreCount(collection), results |-> results,
                      matches |-> Matches(results)]
    /\ UNCHANGED <<coreVars, gateVars, one, crit, sessions, auth>>

\* assistant.py 94-98: embedding the query text fails, query() raises
SearchRaise(limit) ==
    /\ srch.pc = "idle"
    /\ one.pc = "idle"
    /\ srch' = [IdleSearch EXCEPT !.pc = "raised", !.limit = limit,
                                  !.n = StoreCount(collection)]
    /\ UNCHANGED <<coreVars, gateVars, one, crit, sessions, auth>>

\* the caller has the matches (or the exception); the locals are gone
SearchLeave ==
    /\ srch.pc \in {"done", "raised"}
    /\ srch' = IdleSearch
    /\ UNCHANGED <<coreVars, gateVars, one, crit, sessions, auth>>

\* -------------------------------------------------------- compare_modules
Verdicts == {"vollstaendig", "teilweise", "keine"}

\* assistant.py 227: {"error": f"Unit {internal_unit_id} not found"}
NotFound(internal_unit_id) ==
    [NoOneResponse EXCEPT !.error = "not found",
                          !.error_unit_id = internal_unit_id]

\* variant: the provider's exception leaves compare_modules
HandleOneReraise == [pc |-> "raised", response |-> NoOneResponse]

\* assistant.py 297-302: the except clause around the generative call
HandleOne ==
    [pc |-> "done",
     response |-> [NoOneResponse EXCEPT !.error = "LLM call failed",
                                        !.recommendation = "offen"]]

\* assistant.py 220-270: the unit is read from the collection by its id;
\* an id that is not there returns at once
CompareModulesGet(internal_unit_id) ==
    /\ one.pc = "idle"
    /\ srch.pc = "idle"
    /\ LET call == [IdleOne EXCEPT !.internal_unit_id = internal_unit_id,
                                   !.found = internal_unit_id \in DOMAIN collection]
       IN IF ~call.found
          THEN one' = [call EXCEPT !.pc = "done",
                                   !.response = NotFound(internal_unit_id)]
          ELSE one' = [call EXCEPT !.pc = "llm"]
    /\ UNCHANGED <<coreVars, gateVars, srch, crit, sessions, auth>>

\* assistant.py 271-295: the generative call returns and is parsed
CompareModulesLlm(empfehlung) ==
    /\ one.pc = "llm"
    /\ one' = [one EXCEPT !.pc = "done", !.llm_calls = @ + 1,
                          !.response = [NoOneResponse EXCEPT
                              !.recommendation = empfehlung,
                              !.internal_unit_id = one.internal_unit_id]]
    /\ UNCHANGED <<coreVars, gateVars, srch, crit, sessions, auth>>

\* assistant.py 278-302: generate_content or json.loads raises
CompareModulesLlmFail ==
    /\ one.pc = "llm"
    /\ one' = [one EXCEPT !.pc = HandleOne.pc, !.llm_calls = @ + 1,
                          !.llm_failed = TRUE,
                          !.response = HandleOne.response]
    /\ UNCHANGED <<coreVars, gateVars, srch, crit, sessions, auth>>

\* the caller has the response (or the exception); the locals are gone
CompareModulesLeave ==
    /\ one.pc \in {"done", "raised"}
    /\ one' = IdleOne
    /\ UNCHANGED <<coreVars, gateVars, srch, crit, sessions, auth>>

\* ------------------------------------------------------ scoring criteria
\* lernziele_match is a percentage (assistant.py 22, 61: "0-100 percent")
MaxPercent == 100
\* assistant.py 260: ">=80% -> vollstaendig"
FullSingle == 80
\* assistant.py 371: ">=85% UND alle Kernlernziele -> vollstaendig"
FullBatch == 85
\* assistant.py 260 and 371: ">=50% -> teilweise, <50% -> keine"
Partial == 50
\* assistant.py 261 and 373: "bis ~10% Diff tolerierbar"
CreditTolerance == 10

\* credits of the external module and of the unit
Credits == {5, 9, 10}

\* assistant.py 261 and 373, the same line in both prompts:
\* "Credits: Extern >= Intern OK, bis ~10% Diff tolerierbar"
CreditsOk(extern, intern) ==
    extern >= intern \/ (intern - extern) * 100 <= CreditTolerance * intern

\* assistant.py 259-260, the criteria compare_modules puts in its prompt
SingleVerdict(percent, core) ==
    IF percent >= FullSingle THEN "vollstaendig"
    ELSE IF percent >= Partial THEN "teilweise" ELSE "keine"

\* assistant.py 370-372, the criteria each task of compare_multiple puts
\* in its prompt; 75-84% is below the first line's threshold already
BatchVerdict(percent, core) ==
    IF percent >= FullBatch /\ core THEN "vollstaendig"
    ELSE IF percent >= Partial THEN "teilweise" ELSE "keine"

\* one comparison judged by a provider that follows the criteria it is
\* given: percent of the learning goals covered, the core ones among them
\* or not, and the two credit values
Judge(percent, core, extern, intern) ==
    /\ crit.pc = "idle"
    /\ crit' = [pc |-> "judged", percent |-> percent, core |-> core,
                extern |-> extern, intern |-> intern,
                single |-> [empfehlung |-> SingleVerdict(percent, core),
                            credits_ok |-> CreditsOk(extern, intern)],
                batch |-> [empfehlung |-> BatchVerdict(percent, core),
                           credits_ok |-> CreditsOk(extern, intern)]]
    /\ UNCHANGED <<coreVars, gateVars, srch, one, sessions, auth>>

JudgeLeave ==
    /\ crit.pc = "judged"
    /\ crit' = IdleCrit
    /\ UNCHANGED <<coreVars, gateVars, srch, one, sessions, auth>>

\* ------------------------------------------------------- admin sessions
\* auth.py 11: SESSION_TIMEOUT = timedelta(hours=24)
SESSION_TIMEOUT == 24
\* the clock is read every 12 hours: a session is 0, 12, 24 or more hours
\* past its last use
TickHours == 12

\* tokens are uuid4 strings
Tokens == 1..MaxTokens
AllTokens == Tokens \cup {NoToken}

\* ages past the timeout are all alike
Expired == SESSION_TIMEOUT + TickHours

\* auth.py 36: _sessions[token] = datetime.utcnow()
AfterCreate(sess, token) ==
    [t \in DOMAIN sess \cup {token} |-> IF t = token THEN 0 ELSE sess[t]]

\* variant: a session is already expired when the timeout is reached
VerifyResultBeforeTimeout(sess, token) ==
    token \in DOMAIN sess /\ sess[token] < SESSION_TIMEOUT

\* auth.py 49-60: the value verify_session returns
VerifyResult(sess, token) ==
    token \in DOMAIN sess /\ ~(sess[token] > SESSION_TIMEOUT)

\* auth.py 49-60: an expired session is deleted, a valid one is refreshed
AfterVerify(sess, token) ==
    IF token \notin DOMAIN sess THEN sess
    ELSE IF sess[token] > SESSION_TIMEOUT
         THEN [t \in DOMAIN sess \ {token} |-> sess[t]]
         ELSE [sess EXCEPT ![token] = 0]

\* variant: every session is dropped
AfterDeleteAll(sess, token) == EmptyMap

\* auth.py 69-70: "if token in _sessions: del _sessions[token]"
AfterDelete(sess, token) == [t \in DOMAIN sess \ {token} |-> sess[t]]

\* auth.py 79-86: every session past the timeout is removed
AfterCleanup(sess) ==
    [t \in {x \in DOMAIN sess : ~(sess[x] > SESSION_TIMEOUT)} |-> sess[t]]

\* auth.py 79-86: len(expired), the value cleanup_expired_sessions returns
CleanupCount(sess) ==
    Cardinality({x \in DOMAIN sess : sess[x] > SESSION_TIMEOUT})

\* the clock moves on
AfterTick(sess) ==
    [t \in DOMAIN sess |-> Min(sess[t] + TickHours, Expired)]

\* auth.py 29-37: uuid4 gives a token that was never issued before
CreateSession ==
    /\ auth.call.op = "none"
    /\ \E token \in Tokens \ auth.h.issued :
          /\ sessions' = AfterCreate(sessions, token)
          /\ auth' = [call |-> [NoCall EXCEPT !.op = "create", !.token = token,
                                              !.ok = TRUE, !.before = sessions],
                      h |-> [auth.h EXCEPT !.issued = @ \cup {token},
                                           !.live = @ \cup {token}]]
    /\ UNCHANGED <<coreVars, gateVars, srch, one, crit>>

\* auth.py 40-60
VerifySession(token) ==
    /\ auth.call.op = "none"
    /\ sessions' = AfterVerify(sessions, token)
    /\ auth' = [auth EXCEPT !.call =
                   [NoCall EXCEPT !.op = "verify", !.token = token,
                                  !.ok = VerifyResult(sessions, token),
                                  !.before = sessions]]
    /\ UNCHANGED <<coreVars, gateVars, srch, one, crit>>

\* auth.py 63-70
DeleteSession(token) ==
    /\ auth.call.op = "none"
    /\ sessions' = AfterDelete(sessions, token)
    /\ auth' = [call |-> [NoCall EXCEPT !.op = "delete", !.token = token,
                                        !.before = sessions],
                h |-> [auth.h EXCEPT !.live = @ \ {token}]]
    /\ UNCHANGED <<coreVars, gateVars, srch, one, crit>>

\* auth.py 73-86
CleanupExpiredSessions ==
    /\ auth.call.op = "none"
    /\ sessions' = AfterCleanup(sessions)
    /\ auth' = [auth EXCEPT !.call =
                   [NoCall EXCEPT !.op = "cleanup", !.before = sessions,
                                  !.removed = CleanupCount(sessions)]]
    /\ UNCHANGED <<coreVars, gateVars, srch, one, crit>>

\* time passes between two calls
Tick ==
    /\ auth.call.op = "none"
    /\ sessions # EmptyMap
    /\ sessions' = AfterTick(sessions)
    /\ auth' = [auth EXCEPT !.h.overdue = @ \cup
                   {t \in DOMAIN sessions :
                       AfterTick(sessions)[t] > SESSION_TIMEOUT}]
    /\ UNCHANGED <<coreVars, gateVars, srch, one, crit>>

\* the caller has the answer
AuthLeave ==
    /\ auth.call.op # "none"
    /\ auth' = [auth EXCEPT !.call = NoCall]
    /\ UNCHANGED <<coreVars, gateVars, srch, one, crit, sessions>>

\* ---------------------------------------------------------- admin routes
\* os.getenv("ADMIN_PASSWORD") and what a client may send instead
AdminPassword == "admin password"
Passwords == {AdminPassword, "another password"}

\* variant: any password is accepted
VerifyAnyPassword(password) == TRUE

\* auth.py 14-26
VerifyAdminPassword(password) == password = AdminPassword

\* admin_routes.py 111-398: the routes that depend on verify_auth_token
Endpoints ==
    {"list_units", "get_unit", "add_unit", "modify_unit", "remove_unit",
     "list_modules", "get_module", "add_module", "modify_module",
     "remove_module", "list_personen", "get_person", "add_person",
     "modify_person", "remove_person"}

\* an Authorization header: absent, or a token with or without the
\* "Bearer " prefix (the empty token being the empty string)
NoHeader == [present |-> FALSE, bearer |-> FALSE, token |-> NoToken]
Headers ==
    {NoHeader} \cup
    {[present |-> TRUE, bearer |-> b, token |-> t] : b \in BOOLEAN, t \in AllTokens}

\* admin_routes.py 84 and 105: authorization.replace("Bearer ", "")
ParseToken(header) == header.token

\* variant: a header is enough, whatever token it carries
AuthorizedByHeader(sess, header) == header.present

\* admin_routes.py 80-87: no header or a token verify_session rejects
\* raises 401
Authorized(sess, header) ==
    header.present /\ VerifyResult(sess, ParseToken(header))

\* admin_routes.py 91-98: a wrong password is answered 401, the right one
\* with a new session's token
Login(password) ==
    /\ auth.call.op = "none"
    /\ IF VerifyAdminPassword(password)
       THEN \E token \in Tokens \ auth.h.issued :
               /\ sessions' = AfterCreate(sessions, token)
               /\ auth' = [call |-> [NoCall EXCEPT !.op = "login",
                                         !.token = token,
                                         !.ok = password = AdminPassword,
                                         !.status = 200, !.before = sessions],
                           h |-> IF password = AdminPassword
                                 THEN [auth.h EXCEPT !.issued = @ \cup {token},
                                                     !.live = @ \cup {token}]
                                 ELSE auth.h]
       ELSE /\ sessions' = sessions
            /\ auth' = [auth EXCEPT !.call =
                           [NoCall EXCEPT !.op = "login", !.status = 401,
                                          !.ok = password = AdminPassword,
                                          !.before = sessions]]
    /\ UNCHANGED <<coreVars, gateVars, srch, one, crit>>

\* admin_routes.py 101-107: the header's token, if there is a header, is
\* deleted; the answer is 200 either way
Logout(header) ==
    /\ auth.call.op = "none"
    /\ sessions' = IF header.present
                   THEN AfterDelete(sessions, ParseToken(header))
                   ELSE sessions
    /\ auth' = [call |-> [NoCall EXCEPT !.op = "logout", !.status = 200,
                                        !.present = header.present,
                                        !.token = header.token,
                                        !.before = sessions],
                h |-> IF header.present /\ header.token \in auth.h.issued
                      THEN [auth.h EXCEPT !.live = @ \ {header.token},
                                          !.logged_out = @ \cup {header.token}]
                      ELSE auth.h]
    /\ UNCHANGED <<coreVars, gateVars, srch, one, crit>>

\* admin_routes.py 78-87 before any of 111-398: the dependency runs first
\* and the route's body, with its catalog access, only when it passed
AdminRequest(endpoint, header) ==
    /\ auth.call.op = "none"
    /\ sessions' = IF header.present
                   THEN AfterVerify(sessions, ParseToken(header))
                   ELSE sessions
    /\ auth' = [auth EXCEPT !.call =
                   [NoCall EXCEPT !.op = endpoint,
                                  !.present = header.present,
                                  !.token = header.token,
                                  !.ok = Authorized(sessions, header),
                                  !.status = IF Authorized(sessions, header)
                                             THEN 200 ELSE 401,
                                  !.db_access = Authorized(sessions, header),
                                  !.before = sessions]]
    /\ UNCHANGED <<coreVars, gateVars, srch, one, crit>>

\* ------------------------------------------------------- specifications
Next ==
    \/ \E u \in UnitIds, t \in Titles : CreateUnit(u, t)
    \/ \E u \in UnitIds, t \in Titles : UpdateUnit(u, t)
    \/ \E u \in UnitIds : DeleteUnit(u)
    \/ \E p \in Callers, force \in BOOLEAN : DirectSyncFetch(p, force)
    \/ \E p \in Callers : SyncGet(p)
    \/ \E p \in Callers : SyncDelete(p)
    \/ \E p \in Callers : SyncClear(p)
    \/ \E p \in Callers, ok \in BOOLEAN : SyncAdd(p, ok)
    \/ \E p \in Callers : SyncCount(p)
    \/ \E p \in Callers : SyncReturn(p)

Spec == Init /\ [][Next]_vars

\* compare_multiple against an index as a completed sync leaves it, for
\* every set of catalog units; which title a unit has plays no part in
\* compare_multiple, so each unit has one (SeedTitle)

InitCompare ==
    /\ units \in {[u \in S |-> [title |-> SeedTitle(u)]] : S \in SUBSET UnitIds}
    /\ collection = [u \in DOMAIN units |-> BuildEntry(u, units[u])]
    /\ sync = [p \in Procs |-> IdleSync]
    /\ hist = [fresh |-> FALSE, total |-> 0]
    /\ cmp = IdleCmp
    /\ ExtInit

\* ensure_synced, sync_from_database and the admin writes, with the
\* catalog's updated_at column
NextGate ==
    \/ \E u \in UnitIds : AdminCreateUnit(u)
    \/ \E u \in UnitIds : AdminUpdateUnit(u)
    \/ \E u \in UnitIds : AdminDeleteUnit(u)
    \/ \E p \in Callers : EnsureCheck(p)
    \/ \E p \in Callers : GateSyncFetch(p)
    \/ \E p \in Callers : EnsureFinish(p)
    \/ \E p \in Callers : EnsureLeave(p)
    \/ \E p \in Callers, force \in BOOLEAN : DirectSyncFetch(p, force)
    \/ \E p \in Callers : DirectSyncReturn(p)
    \/ \E p \in Callers : SyncGet(p)
    \/ \E p \in Callers : SyncDelete(p)
    \/ \E p \in Callers : SyncClear(p)
    \/ \E p \in Callers, ok \in BOOLEAN : SyncAdd(p, ok)
    \/ \E p \in Callers : SyncCount(p)

SpecGate == Init /\ [][NextGate]_vars

\* the catalog gains and loses units and the index is brought up to date
\* through ensure_synced alone (no script calls sync_from_database)
NextGateWrites ==
    \/ \E u \in UnitIds : AdminCreateUnit(u)
    \/ \E u \in UnitIds : AdminDeleteUnit(u)
    \/ \E p \in Callers : EnsureCheck(p)
    \/ \E p \in Callers : GateSyncFetch(p)
    \/ \E p \in Callers : EnsureFinish(p)
    \/ \E p \in Callers : EnsureLeave(p)
    \/ \E p \in Callers : SyncGet(p)
    \/ \E p \in Callers : SyncDelete(p)
    \/ \E p \in Callers : SyncClear(p)
    \/ \E p \in Callers, ok \in BOOLEAN : SyncAdd(p, ok)
    \/ \E p \in Callers : SyncCount(p)

SpecGateWrites == Init /\ [][NextGateWrites]_vars

\* ensure_synced is called again and again and every call runs to its end;
\* the embedding provider may fail any number of times but not for ever
GateFairness ==
    \A p \in Callers :
        /\ WF_vars(EnsureCheck(p))
        /\ WF_vars(GateSyncFetch(p))
        /\ WF_vars(SyncGet(p))
        /\ WF_vars(SyncDelete(p))
        /\ WF_vars(SyncClear(p))
        /\ SF_vars(SyncAdd(p, TRUE))
        /\ WF_vars(SyncCount(p))
        /\ WF_vars(EnsureFinish(p))
        /\ WF_vars(EnsureLeave(p))

\* the catalog writes are not fair steps: they stop at some time
SpecGateLive == Init /\ [][NextGateWrites]_vars /\ GateFairness

\* a process that has just started (_last_checksum is None) on any catalog
\* and any index a former process left in the persistent store; the
\* catalog's rows were written one after the other
InitConcurrent ==
    /\ units \in {[u \in S |-> [title |-> SeedTitle(u)]] : S \in SUBSET UnitIds}
    /\ updated_at = [u \in DOMAIN units |-> u]
    /\ now = MaxUnits
    /\ collection \in {[u \in S |-> BuildEntry(u, [title |-> SeedTitle(u)])] :
                          S \in SUBSET UnitIds}
    /\ sync = [p \in Procs |-> IdleSync]
    /\ hist = [fresh |-> FALSE, total |-> 0]
    /\ cmp = IdleCmp
    /\ last_checksum = NoChecksum
    /\ gate = [p \in Procs |-> IdleGate]
    /\ ghist = [fresh |-> FALSE]
    /\ srch = IdleSearch
    /\ one = IdleOne
    /\ crit = IdleCrit
    /\ sessions = EmptyMap
    /\ auth = [call |-> NoCall, h |-> NoTokens]

\* two request threads call ensure_synced once each while nothing writes
\* the catalog; there is no lock, their steps interleave freely
NextConcurrent ==
    \/ \E p \in Procs : EnsureCheck(p)
    \/ \E p \in Procs : GateSyncFetch(p)
    \/ \E p \in Procs : SyncGet(p)
    \/ \E p \in Procs : SyncDelete(p)
    \/ \E p \in Procs : SyncClear(p)
    \/ \E p \in Procs, ok \in BOOLEAN : SyncAdd(p, ok)
    \/ \E p \in Procs : SyncCount(p)
    \/ \E p \in Procs : EnsureFinish(p)

SpecConcurrent == InitConcurrent /\ [][NextConcurrent]_vars

\* find_matching_units and compare_modules against an index as a
\* completed sync leaves it
NextSearch ==
    \/ \E limit \in Limits : \E dist \in QueryDistances : Search(dist, limit)
    \/ \E limit \in Limits : SearchRaise(limit)
    \/ SearchLeave
    \/ \E internal_unit_id \in UnitIds : CompareModulesGet(internal_unit_id)
    \/ \E empfehlung \in Verdicts : CompareModulesLlm(empfehlung)
    \/ CompareModulesLlmFail
    \/ CompareModulesLeave

SpecSearch == InitCompare /\ [][NextSearch]_vars

\* the criteria of the two comparison prompts, applied to one coverage
NextCriteria ==
    \/ \E percent \in 0..MaxPercent, core \in BOOLEAN, extern, intern \in Credits :
          Judge(percent, core, extern, intern)
    \/ JudgeLeave

SpecCriteria == Init /\ [][NextCriteria]_vars

\* the functions of auth.py, called in any order
NextAuth ==
    \/ CreateSession
    \/ \E token \in AllTokens : VerifySession(token)
    \/ \E token \in AllTokens : DeleteSession(token)
    \/ CleanupExpiredSessions
    \/ Tick
    \/ AuthLeave

SpecAuth == Init /\ [][NextAuth]_vars

\* the admin API: login, logout and the catalog routes
NextAdmin ==
    \/ \E password \in Passwords : Login(password)
    \/ \E header \in Headers : Logout(header)
    \/ \E endpoint \in Endpoints, header \in Headers :
          AdminRequest(endpoint, header)
    \/ Tick
    \/ AuthLeave

SpecAdmin == Init /\ [][NextAdmin]_vars

NextCompare ==
    \/ \E unit_ids \in Requests : CompareFetch(unit_ids)
    \/ \E i \in 1..MaxReq : TaskStart(i)
    \/ \E i \in 1..MaxReq, r \in UnitIds : TaskFinish(i, r)
    \/ \E i \in 1..MaxReq : TaskFail(i)
    \/ CompareReturn
    \/ CompareLeave

SpecCompare == InitCompare /\ [][NextCompare]_vars

\* ================================================================ claims
\* ------------------------------------------------------------------ C1
\* C1 (as stated): after any reconcile call that returns without error the
\* ids in the index are exactly the unit ids of the snapshot the call read.
C1_IdsEqualSnapshotAlways ==
    \A p \in Callers :
        sync[p].pc = "done" => DOMAIN collection = DOMAIN sync[p].units

\* C1 (amended): after a reconcile call that read a non-empty snapshot and
\* returned without error, forced or not, the ids in the index are exactly
\* the unit ids of that snapshot.
C1_IdsEqualNonEmptySnapshot ==
    \A p \in Callers :
        (sync[p].pc = "done" /\ DOMAIN sync[p].units # {})
            => DOMAIN collection = DOMAIN sync[p].units

\* a forced call that deleted stale ids, cleared the rest and added anew
C1_Witness ==
    \E p \in Callers :
        /\ sync[p].pc = "done"
        /\ sync[p].force_refresh
        /\ Len(sync[p].ops) = 3
        /\ DOMAIN collection = DOMAIN sync[p].units

\* ------------------------------------------------------------------ C3
\* C3: a non-forced reconcile that finds an index equal to snapshot A while
\* the catalog is A minus one unit plus one new unit deletes exactly the
\* removed id, adds exactly the new id, and leaves every other entry
\* (document and metadata) as it was.
C3_IncrementalExact ==
    \A p \in Callers :
        LET A == DOMAIN sync[p].existing
            B == DOMAIN sync[p].units
        IN (/\ sync[p].pc = "done"
            /\ ~sync[p].force_refresh
            /\ Cardinality(A \ B) = 1
            /\ Cardinality(B \ A) = 1)
           => /\ sync[p].ops = << <<"delete", A \ B>>, <<"add", B \ A>> >>
              /\ DOMAIN collection = B
              /\ \A u \in A \cap B : collection[u] = sync[p].existing[u]

\* one id removed, one added, and a kept entry whose catalog title has
\* changed since it was indexed
C3_Witness ==
    \E p \in Callers :
        LET A == DOMAIN sync[p].existing
            B == DOMAIN sync[p].units
        IN /\ sync[p].pc = "done"
           /\ ~sync[p].force_refresh
           /\ Cardinality(A \ B) = 1
           /\ Cardinality(B \ A) = 1
           /\ \E u \in A \cap B :
                 /\ collection[u] = sync[p].existing[u]
                 /\ collection[u] # BuildEntry(u, sync[p].units[u])

\* ------------------------------------------------------------------ C4
\* C4: a non-forced reconcile that follows a non-forced reconcile which
\* returned, with no catalog write since that one fetched its snapshot,
\* issues no delete and no add and returns the same count.
C4_SecondCallIsNoop ==
    \A p \in Callers :
        (sync[p].pc = "done" /\ ~sync[p].force_refresh /\ sync[p].again)
            => /\ sync[p].ops = <<>>
               /\ sync[p].total = sync[p].prev_total

\* the repeated call on a non-empty catalog
C4_Witness ==
    \E p \in Callers :
        /\ sync[p].pc = "done"
        /\ ~sync[p].force_refresh
        /\ sync[p].again
        /\ sync[p].total = MaxUnits
        /\ sync[p].prev_total = MaxUnits

C6_ReturnsIndexCount ==
    \A p \in Callers :
        sync[p].pc = "done" => sync[p].total = StoreCount(collection)

\* ------------------------------------------------------------------ C2
CmpFailed == {i \in DOMAIN cmp.task : cmp.task[i].state = "failed"}
CmpOk == {i \in DOMAIN cmp.task : cmp.task[i].state = "ok"}
IsErrorEntry(e) == "error" \in DOMAIN e
Occurrences(unit_id, unit_ids) ==
    Cardinality({i \in DOMAIN unit_ids : unit_ids[i] = unit_id})

\* C2: with N resolved candidates of which k fail, compareMany returns
\* without raising, with N-k verdicts and k error entries, each error entry
\* carrying the unit id of its failed candidate.
C2_BatchIsolation ==
    /\ cmp.pc # "raised"
    /\ cmp.pc = "done" =>
          LET res == cmp.response.results
              N == Len(cmp.units_data)
              k == Cardinality(CmpFailed)
          IN /\ Cardinality({j \in DOMAIN res : ~IsErrorEntry(res[j])}) = N - k
             /\ Cardinality({j \in DOMAIN res : IsErrorEntry(res[j])}) = k
             /\ \A i \in CmpFailed :
                   \E j \in DOMAIN res :
                      /\ IsErrorEntry(res[j])
                      /\ res[j].unit_id = cmp.units_data[i].unit_id

\* ------------------------------------------------------------------ C7
\* C7: on partial failure the response still holds the timing record and
\* the verdict of every candidate that succeeded.
C7_PartialResultsAndTiming ==
    (cmp.pc = "done" /\ CmpFailed # {} /\ CmpOk # {})
        => /\ cmp.response.timing = TimingKeys
           /\ \A i \in CmpOk :
                 \E j \in DOMAIN cmp.response.results :
                    cmp.response.results[j] = cmp.task[i].result

\* ------------------------------------------------------------------ C8
\* C8 (as stated): compareMany never raises; a failed task, and also the
\* case where no requested id resolves, gives an error marker alongside an
\* empty result list.
C8_EveryFailureIsMarked ==
    /\ cmp.pc # "raised"
    /\ (cmp.pc = "done" /\ (CmpFailed # {} \/ cmp.units_data = <<>>))
          => /\ cmp.response.error # NoError
             /\ cmp.response.results = <<>>

\* C8 (amended): compareMany does not raise when a candidate's task fails:
\* the failure of any task gives the error marker of a failed task
\* alongside an empty result list; when no requested id resolves the result
\* list is empty and there is no error marker.
C8_TaskFailureIsMarked ==
    /\ cmp.pc # "raised"
    /\ cmp.pc = "done" =>
          /\ CmpFailed # {} =>
                /\ cmp.response.error \in {[task |-> i] : i \in CmpFailed}
                /\ cmp.response.results = <<>>
          /\ cmp.units_data = <<>> =>
                /\ cmp.response.error = NoError
                /\ cmp.response.results = <<>>

\* every task of a full batch failed and the call returned the marker
C8_Witness ==
    /\ cmp.pc = "done"
    /\ Len(cmp.units_data) = MaxReq
    /\ CmpOk = {}
    /\ cmp.response.error # NoError

\* ------------------------------------------------------------------ C9
\* C9: when none of the requested ids is in the index (the empty request
\* included) the call has returned without a generative call, with an
\* empty result list and no error marker.
C9_NoneResolvedIsEmptyResult ==
    (cmp.pc # "idle" /\ \A i \in DOMAIN cmp.unit_ids :
                            cmp.unit_ids[i] \notin DOMAIN collection)
        => /\ cmp.pc = "done"
           /\ \A u \in UnitIds : cmp.llm_calls[u] = 0
           /\ cmp.response.results = <<>>
           /\ cmp.response.error = NoError

\* a full request of ids that are all missing from a non-empty index
C9_Witness ==
    /\ cmp.pc = "done"
    /\ Len(cmp.unit_ids) = MaxReq
    /\ collection # EmptyMap
    /\ \A i \in DOMAIN cmp.unit_ids : cmp.unit_ids[i] \notin DOMAIN collection

\* ----------------------------------------------------------------- C10
\* C10: a requested id that is not in the index gets no generative call
\* and no entry in the result list; every requested id that is in the
\* index gets its generative call, once per time it was requested.
C10_AbsentSkippedPresentCompared ==
    /\ \A u \in UnitIds \ DOMAIN collection : cmp.llm_calls[u] = 0
    /\ cmp.pc = "done" =>
          /\ \A u \in DOMAIN collection :
                cmp.llm_calls[u] = Occurrences(u, cmp.unit_ids)
          /\ \A j \in DOMAIN cmp.response.results :
                cmp.response.results[j].unit_id \in DOMAIN collection

\* a request whose first id is missing and whose later id was compared
C10_Witness ==
    /\ cmp.pc = "done"
    /\ Len(cmp.unit_ids) > 1
    /\ cmp.unit_ids[1] \notin DOMAIN collection
    /\ Len(cmp.response.results) = Len(cmp.unit_ids) - 1
    /\ Len(cmp.response.results) > 0

\* --------------------------------------------------- checksum gate claims
\* the gate's condition as the call found it
GateOpen(g) == g.was_last = NoChecksum \/ g.current_checksum # g.was_last

C12_RepeatIsSkipped ==
    \A p \in Callers :
        (gate[p].pc # "idle" /\ gate[p].again) =>
            /\ gate[p].pc = "done"
            /\ ~gate[p].result
            /\ gate[p].syncs = 0

\* C13: _last_checksum changes only in the step that ends an ensure_synced
\* call whose sync_from_database call returned; when the sync raised, and
\* in every other step, it keeps its value
C13_WrittenOnlyOnSuccess ==
    [][last_checksum' # last_checksum =>
          \E p \in Callers :
              /\ gate[p].pc = "syncing"
              /\ sync[p].pc = "done"
              /\ gate'[p].pc = "done"
              /\ gate'[p].result
              /\ last_checksum' = gate[p].current_checksum]_vars

\* a triggered sync raised and the previous checksum is still there
C13_Witness ==
    \E p \in Callers :
        /\ gate[p].pc = "raised"
        /\ last_checksum # NoChecksum
        /\ last_checksum = gate[p].was_last
        /\ last_checksum # gate[p].current_checksum

\* ------------------------------------------ search and compare_modules claims
\* C14: a search with limit k on an index of n entries returns exactly
\* min(k, n) matches, the i-th match being the store's i-th result with
\* rank i; on an empty index the list is empty
C14_MatchesAreStoreResults ==
    srch.pc = "done" =>
        /\ Len(srch.matches) = Min(srch.limit, srch.n)
        /\ Len(srch.matches) = Len(srch.results)
        /\ \A i \in 1..Len(srch.matches) :
              /\ srch.matches[i].rank = i
              /\ srch.matches[i].unit_id = srch.results[i].metadata.unit_id
        /\ srch.n = 0 => srch.matches = <<>>

\* a search that returns fewer entries than the index holds, two at least
C14_Witness ==
    /\ srch.pc = "done"
    /\ srch.limit < srch.n
    /\ Len(srch.matches) = srch.limit
    /\ srch.limit >= 2

\* C15: every similarity lies between -1 and 1, and the matches are in
\* non-increasing order of similarity
C15_SimilarityBoundedSorted ==
    srch.pc = "done" =>
        /\ \A i \in 1..Len(srch.matches) :
              /\ srch.matches[i].similarity >= -One
              /\ srch.matches[i].similarity <= One
        /\ \A i, j \in 1..Len(srch.matches) :
              i < j => srch.matches[i].similarity >= srch.matches[j].similarity

\* matches at both ends of the range, with distances that round() changes
C15_Witness ==
    /\ srch.pc = "done"
    /\ Len(srch.matches) >= 3
    /\ srch.results[1].distance = 1
    /\ srch.matches[1].similarity = One
    /\ srch.results[2].distance = 3
    /\ srch.matches[Len(srch.matches)].similarity = -One

\* C17: compare_modules for an id that is not in the index returns an
\* error value naming that id without a generative call; a failing
\* provider call is returned as an error value too; it never raises
C17_ErrorsAreValues ==
    /\ one.pc # "raised"
    /\ one.pc = "done" =>
          /\ ~one.found =>
                /\ one.response.error # ""
                /\ one.response.error_unit_id = one.internal_unit_id
                /\ one.llm_calls = 0
          /\ one.llm_failed => one.response.error # ""

\* the provider failed for an id that is in the index
C17_Witness ==
    /\ one.pc = "done"
    /\ one.found
    /\ one.llm_failed
    /\ one.response.error # ""

\* ------------------------------------------------------- criteria claims
\* C16: compare_modules and the tasks of compare_multiple classify a given
\* coverage identically: the same recommendation and the same credit
\* assessment on both paths
C16_SameCriteria ==
    crit.pc = "judged" => crit.single = crit.batch

\* ---------------------------------------------------------- admin claims
\* C18: while no session is left unused for longer than the timeout,
\* verify_session(t) is True exactly for the tokens create_session
\* returned and delete_session has not removed since; creating or deleting
\* one token leaves every other token's validity as it was; a token that
\* was never issued (the empty one and None among them) is invalid;
\* deleting a token that has no session changes nothing
C18_SessionValidity ==
    LET c == auth.call
        h == auth.h
    IN /\ \A t \in AllTokens \ h.overdue : (t \in DOMAIN sessions) = (t \in h.live)
       /\ (c.op = "verify" /\ c.token \notin h.overdue) =>
              c.ok = (c.token \in h.live)
       /\ (c.op = "verify" /\ c.token \notin h.issued) => ~c.ok
       /\ c.op \in {"create", "delete"} =>
              \A t \in AllTokens \ {c.token} :
                  VerifyResult(sessions, t) = VerifyResult(c.before, t)
       /\ (c.op = "delete" /\ c.token \notin DOMAIN c.before) =>
              sessions = c.before

\* a deleted token is rejected while another one is still valid
C18_Witness ==
    /\ auth.call.op = "verify"
    /\ ~auth.call.ok
    /\ auth.call.token \in auth.h.issued \ auth.h.overdue
    /\ \E t \in auth.h.live \ {auth.call.token} : VerifyResult(sessions, t)

\* C19: a catalog route answers 401 and does not reach the catalog unless
\* the Authorization header carries a token verify_session accepts; only
\* a login with the admin password issues a token; a token that was
\* logged out has no session and is answered 401
C19_AdminRoutesGuarded ==
    LET c == auth.call
        h == auth.h
    IN /\ c.op \in Endpoints =>
              \/ c.status = 401 /\ ~c.db_access
              \/ c.present /\ VerifyResult(c.before, c.token)
       /\ DOMAIN sessions \subseteq h.issued
       /\ c.op = "login" => (c.status = 200 /\ c.token \in Tokens) = c.ok
       /\ \A t \in h.logged_out : t \notin DOMAIN sessions
       /\ (c.op \in Endpoints /\ c.token \in h.logged_out) =>
              c.status = 401 /\ ~c.db_access

\* a token that a login issued and a logout removed is answered 401
C19_Witness ==
    /\ auth.call.op \in Endpoints
    /\ auth.call.present
    /\ auth.call.token \in auth.h.logged_out
    /\ auth.call.token \in auth.h.issued
    /\ auth.call.status = 401

\* ------------------------------------------------------- worker pool claim
\* C20: when compare_multiple has returned, every task it submitted has
\* finished, also when one of them raised: none is pending or running
C20_ReturnsAfterAllTasks ==
    cmp.pc \in {"done", "raised"} =>
        \A i \in DOMAIN cmp.task : cmp.task[i].state \in {"ok", "failed"}

\* the call returned the error of a failed task, its siblings finished
C20_Witness ==
    /\ cmp.pc = "done"
    /\ Len(cmp.task) >= 3
    /\ \E i \in DOMAIN cmp.task : cmp.task[i].state = "failed"
    /\ \E i \in DOMAIN cmp.task : cmp.task[i].state = "ok"
    /\ cmp.response.error # NoError

\* ---------------------------------------------------------------- C21
\* the unit ids of a sequence of records, in order
UnitIdsOf(recs) == [i \in DOMAIN recs |-> recs[i].unit_id]

\* C21: when every generative call succeeds, compare_multiple has issued
\* one generative call per resolved candidate and returns one verdict per
\* resolved candidate, in whatever order the tasks complete; each verdict
\* carries the unit id (and the index data) of its own candidate, so the
\* unit ids of the results are those of the candidates, as often as each
\* was resolved.
C21_OneVerdictPerCandidate ==
    (cmp.pc = "done" /\ cmp.units_data # <<>> /\ CmpFailed = {}) =>
        LET res == cmp.response.results
        IN /\ cmp.response.error = NoError
           /\ Len(res) = Len(cmp.units_data)
           /\ \A u \in UnitIds :
                 /\ cmp.llm_calls[u] = Occurrences(u, UnitIdsOf(cmp.units_data))
                 /\ Occurrences(u, UnitIdsOf(res))
                       = Occurrences(u, UnitIdsOf(cmp.units_data))
           /\ \A j \in DOMAIN res :
                 \E i \in DOMAIN cmp.units_data :
                    /\ res[j].unit_id = cmp.units_data[i].unit_id
                    /\ res[j].unit_content = cmp.units_data[i].doc
                    /\ res[j].unit_title = cmp.units_data[i].meta.unit_title

\* three candidates all succeeded and the results came back in another
\* order than the candidates were submitted
C21_Witness ==
    /\ cmp.pc = "done"
    /\ Len(cmp.units_data) = 3
    /\ CmpFailed = {}
    /\ Len(cmp.response.results) = 3
    /\ cmp.response.results[1].unit_id = cmp.units_data[3].unit_id
    /\ cmp.response.results[1].unit_id # cmp.units_data[1].unit_id

\* ------------------------------------------- reconcile order and content
\* the kinds of the store writes a call has made, in order
OpKinds(p) == [i \in DOMAIN sync[p].ops |-> sync[p].ops[i][1]]

\* the ids a call has passed to collection.delete so far
DeletedIds(p) ==
    UNION {sync[p].ops[i][2] : i \in {j \in DOMAIN sync[p].ops :
                                         sync[p].ops[j][1] = "delete"}}

\* the entries of a map whose id is in S
Restrict(coll, S) == [u \in (DOMAIN coll) \cap S |-> coll[u]]

\* C23: within one sync_from_database call (no other writer to the store)
\* every delete comes before the add, there is at most one add, and when
\* the add is about to be made none of its ids is in the store.
C23_DeletesPrecedeDisjointAdd ==
    \A p \in Callers :
        /\ \A i \in DOMAIN sync[p].ops :
              sync[p].ops[i][1] = "add" => i = Len(sync[p].ops)
        /\ sync[p].pc = "add" =>
              sync[p].units_to_process \cap DOMAIN collection = {}
        /\ \A i \in DOMAIN sync[p].ops :
              (sync[p].ops[i][1] = "add" /\ sync[p].pc \in {"count", "done"})
                  => sync[p].ops[i][2] \subseteq DOMAIN collection

\* a non-forced call that deleted a stale id, then added a new one, with
\* entries it kept in the store all along
C23_Witness ==
    \E p \in Callers :
        /\ sync[p].pc = "done"
        /\ ~sync[p].force_refresh
        /\ OpKinds(p) = <<"delete", "add">>
        /\ DOMAIN sync[p].existing \cap DOMAIN sync[p].units # {}

\* C24: a forced call on a non-empty snapshot deletes every id it found in
\* the index and adds an entry for every snapshot id; when it returns,
\* every entry is the one built from the snapshot, also for the ids that
\* were in the index before.
C24_ForcedRebuildsEverything ==
    \A p \in Callers :
        (sync[p].pc = "done" /\ sync[p].force_refresh
            /\ DOMAIN sync[p].units # {})
        => /\ DOMAIN sync[p].existing \subseteq DeletedIds(p)
           /\ sync[p].ops[Len(sync[p].ops)] = <<"add", DOMAIN sync[p].units>>
           /\ collection = [u \in DOMAIN sync[p].units |->
                               BuildEntry(u, sync[p].units[u])]

\* a forced call that replaced an entry whose content had changed
C24_Witness ==
    \E p \in Callers :
        /\ sync[p].pc = "done"
        /\ sync[p].force_refresh
        /\ \E u \in DOMAIN sync[p].existing \cap DOMAIN sync[p].units :
              /\ sync[p].existing[u] # BuildEntry(u, sync[p].units[u])
              /\ collection[u] = BuildEntry(u, sync[p].units[u])

\* C25: no step of a non-forced call removes or rewrites an entry whose id
\* is in the index and in the call's snapshot; an entry only changes (or
\* goes) in a step of a forced call or when its id has left the catalog.
C25_KeptEntriesNotRewritten ==
    [][\A u \in DOMAIN collection :
          (u \notin DOMAIN collection' \/ collection'[u] # collection[u])
              => \E p \in Callers :
                    /\ sync[p].pc # "idle"
                    /\ sync[p].force_refresh \/ u \notin DOMAIN sync[p].units]_vars

\* the second non-forced call in a row, returning with an entry whose
\* catalog content differs from what the index holds
C25_Witness ==
    \E p \in Callers :
        /\ sync[p].pc = "done"
        /\ ~sync[p].force_refresh
        /\ sync[p].again
        /\ \E u \in DOMAIN sync[p].units \cap DOMAIN collection :
              /\ collection[u] = sync[p].existing[u]
              /\ collection[u] # BuildEntry(u, sync[p].units[u])

\* C26: a call whose add step failed has raised without a second attempt
\* and without an add; the index is as the delete phase left it: for a
\* non-forced call the earlier entries whose ids are in the snapshot, for
\* a forced call nothing.
C26_FailedAddLeavesDeletePhase ==
    \A p \in Callers :
        sync[p].pc = "raised" =>
            /\ \A i \in DOMAIN sync[p].ops : sync[p].ops[i][1] = "delete"
            /\ Len(sync[p].ops) <= 2
            /\ collection = IF sync[p].force_refresh THEN EmptyMap
                            ELSE Restrict(sync[p].existing, DOMAIN sync[p].units)

\* a non-forced call that deleted a stale id, kept an entry, then failed
C26_Witness ==
    \E p \in Callers :
        /\ sync[p].pc = "raised"
        /\ ~sync[p].force_refresh
        /\ OpKinds(p) = <<"delete">>
        /\ collection # EmptyMap
        /\ DOMAIN collection # DOMAIN sync[p].units

\* C30: every entry of the index has its own id as the metadata's unit_id,
\* so the unit_id that find_matching_units reports for an entry is found
\* again by the lookup of compare_multiple (and compare_modules) on the
\* same index, and gives that entry.
C30_MetadataIdIsEntryId ==
    \A u \in DOMAIN collection :
        LET result == [id |-> u, distance |-> 0,
                       metadata |-> collection[u].metadata]
            match == Matches(<<result>>)[1]
        IN /\ collection[u].metadata.unit_id = u
           /\ match.unit_id \in DOMAIN collection
           /\ Resolve(collection, <<match.unit_id>>) = <<UnitData(collection, u)>>

\* a call has added the entries of every unit of a full catalog
C30_Witness ==
    \E p \in Callers :
        /\ sync[p].pc = "done"
        /\ Len(sync[p].ops) > 0
        /\ sync[p].ops[Len(sync[p].ops)] = <<"add", UnitIds>>
        /\ DOMAIN collection = UnitIds

\* ---------------------------------------------------------------- C29
\* C29: verify_session is True exactly for a token whose session was last
\* touched (created or successfully verified) no more than 24 hours ago,
\* and then the session's timer starts anew; otherwise it is False and the
\* token has no session afterwards; a token that once was left unused for
\* longer than 24 hours is never valid again. cleanup_expired_sessions
\* removes exactly the sessions older than 24 hours, returns how many
\* they were and leaves every other session as it was.
C29_RollingTimeout ==
    LET c == auth.call
        live == {t \in DOMAIN c.before : c.before[t] <= SESSION_TIMEOUT}
    IN /\ c.op = "verify" =>
             /\ c.ok = (c.token \in live)
             /\ c.ok => sessions = [c.before EXCEPT ![c.token] = 0]
             /\ ~c.ok => sessions = [t \in DOMAIN c.before \ {c.token} |->
                                        c.before[t]]
             /\ c.token \in auth.h.overdue => ~c.ok
       /\ \A t \in auth.h.overdue \cap DOMAIN sessions :
             sessions[t] > SESSION_TIMEOUT
       /\ c.op = "cleanup" =>
             /\ sessions = [t \in live |-> c.before[t]]
             /\ c.removed = Cardinality(DOMAIN c.before \ live)

\* a session verified exactly 24 hours after its last use: accepted, and
\* its timer restarted, while another session has run out
C29_Witness ==
    /\ auth.call.op = "verify"
    /\ auth.call.ok
    /\ auth.call.before[auth.call.token] = SESSION_TIMEOUT
    /\ sessions[auth.call.token] = 0
    /\ \E t \in DOMAIN sessions : sessions[t] > SESSION_TIMEOUT

\* ---------------------------------------------------------------- C27
\* no ensure_synced and no sync_from_database call is running
GateQuiet == \A p \in Procs : gate[p].pc = "idle" /\ sync[p].pc = "idle"

\* the next ensure_synced would skip
GateWouldSkip == ~ShouldSync(last_checksum, GetUnitsChecksum(updated_at))

\* C27: whenever no call is in progress and the stored checksum equals the
\* catalog's current checksum, so that the next ensure_synced would skip,
\* the ids in the index are exactly the unit ids of the catalog.
C27_SkipImpliesInSync ==
    (GateQuiet /\ GateWouldSkip) => DOMAIN collection = DOMAIN units

\* ---------------------------------------------------------------- C22
\* C22: two callers run ensure_synced concurrently on an unchanged
\* catalog; once both have returned, the ids in the index are exactly the
\* unit ids of the catalog, however their steps interleaved.
C22_BothReturnedInSync ==
    (\A p \in Procs : gate[p].pc = "done")
        => DOMAIN collection = DOMAIN units

\* C22 (amended): the same for a catalog that is not empty.
C22_BothReturnedInSyncNonEmpty ==
    ((\A p \in Procs : gate[p].pc = "done") /\ DOMAIN units # {})
        => /\ DOMAIN collection = DOMAIN units
           /\ \A u \in DOMAIN collection : collection[u].metadata.unit_id = u

\* both callers decided to sync and both syncs returned, on a catalog of
\* two units or more
C22_Witness ==
    /\ \A p \in Procs : gate[p].pc = "done" /\ gate[p].result /\ gate[p].syncs = 1
    /\ DOMAIN units # {}
    /\ DOMAIN collection = DOMAIN units
    /\ Cardinality(DOMAIN units) >= 2

\* ---------------------------------------------------------------- C28
\* a sync started by ensure_synced has raised
GateSyncFailed == \E p \in Callers : gate[p].pc = "raised"

\* the index holds the catalog's ids and ensure_synced skips
Converged == DOMAIN collection = DOMAIN units /\ GateWouldSkip

\* C28: after a sync started by ensure_synced has failed, with the
\* provider succeeding in the end and ensure_synced called again and
\* again, the catalog's last state, if it is not empty, is reached by the
\* index and ensure_synced returns False from then on.
C28_ConvergesAfterFailure ==
    [](GateSyncFailed => <>[](DOMAIN units = {} \/ Converged))

====
